---- MODULE Spec2Model ----
(***************************************************************************)
(* A model of libprobe: the assignment reconciler and the check runners of *)
(* libprobe/probe.py and the request/response table of                     *)
(* libprobe/net/protocol.py.                                               *)
(*                                                                         *)
(* Scheduling is asyncio's: one thread, callbacks and task steps run to    *)
(* their next await without interleaving.  Every action below is one such  *)
(* atomic step.                                                            *)
(***************************************************************************)
EXTENDS Integers, Sequences, FiniteSets, TLC

(***************************************************************************)
(* Bounds of the model.                                                    *)
(***************************************************************************)
\* longest list of [path, names, config] entries in one push message
MaxMsgLen == 2
\* runner tasks that exist at one time (registered ones and cancelled ones
\* whose cancellation has not been delivered yet)
MaxTasks == 3

(***************************************************************************)
(* Values.                                                                 *)
(***************************************************************************)
\* probe.py:49, index of the asset id in a path (Python index 0)
ASSET_ID == 1
\* probe.py:52, index of the check key in names (Python index 1)
CHECK_NAME_IDX == 2

AssetIds == {1, 2}
Paths == {<<1, 1>>, <<1, 2>>, <<2, 1>>}

\* Probe._checks_funs: the check keys the probe was constructed with
checks_funs == {"ping"}

\* names and config values that occur in messages: a registered check key
\* and one that is not, and two configs that differ in _interval
NamesPing == <<"host", "ping">>
NamesNope == <<"host", "nope">>
Cfg1 == [interval |-> 1]
Cfg2 == [interval |-> 2]

\* [path, names, config] entries of set_assets / upsert_asset messages
Entries ==
    { << <<1, 1>>, NamesPing, Cfg1 >>,
      << <<1, 1>>, NamesPing, Cfg2 >>,
      << <<1, 2>>, NamesPing, Cfg1 >>,
      << <<1, 2>>, NamesNope, Cfg1 >>,
      << <<2, 1>>, NamesPing, Cfg1 >> }

SeqsUpTo(S, n) == UNION { [1..k -> S] : k \in 0..n }

\* bodies of set_assets messages
SetMsgs == SeqsUpTo(Entries, MaxMsgLen)
\* check lists of upsert_asset messages for asset a: the agentcore sends the
\* checks of that asset, every path starts with a
UpsertMsgs(a) == SeqsUpTo({ e \in Entries : e[1][ASSET_ID] = a }, MaxMsgLen)
\* bodies of unset_assets messages (the handler turns the list into a set)
UnsetMsgs == SUBSET AssetIds

EmptyMap == [x \in {} |-> 0]
Restrict(f, S) == [x \in S |-> f[x]]
MaxOf(S) == CHOOSE x \in S : \A y \in S : y <= x
MinOf(S) == CHOOSE x \in S : \A y \in S : x <= y

(***************************************************************************)
(* State of the Probe object.                                              *)
(***************************************************************************)
VARIABLES
    checks_config,  \* Probe._checks_config: path -> (names, config)
    checks,         \* Probe._checks: path -> task
    tasks,          \* the runner tasks (asyncio tasks of _run_check_loop)
    stopped,        \* a SIGINT or SIGTERM was received (Probe._stop has run)
    hist            \* the step just taken (history, not program state)

probeVars == <<checks_config, checks, tasks, stopped, hist>>

(***************************************************************************)
(* State of a Protocol object (libprobe/net/protocol.py) and of what is    *)
(* around it: the futures request() made, the timer tasks, and the         *)
(* requests the agentcore has received and not answered.                   *)
(***************************************************************************)
VARIABLES
    pid,            \* Protocol._pid
    requests,       \* Protocol._requests: pid -> [fut, task]
    transport,      \* Protocol.transport: "None" or "transport"
    buffered_data,  \* Protocol._buffered_data
    package,        \* Protocol._package
    futs,           \* the futures of the calls of request(), by call
    timers,         \* the _timer tasks, by call
    asked,          \* calls the agentcore has received and not answered
    stream,         \* bytes the agentcore has written, not read yet
    conn,           \* the TCP connection: "new", "open" or "closed"
    phist           \* the step just taken (history, not program state)

protoVars ==
    <<pid, requests, transport, buffered_data, package, futs, timers,
      asked, stream, conn, phist>>

(***************************************************************************)
(* One check runner and the clock: the times of Probe._run_check_loop.     *)
(***************************************************************************)
VARIABLES
    clock,          \* time.time(), in seconds since the runner was made
    interval,       \* _interval of the config of the path
    ts_cur,             \* the local ts of _run_check_loop
    ts_next,        \* the local ts_next of _run_check_loop
    loop_pc,        \* where the runner is: "new", "sleep", "check", "error"
    invoked_at      \* the time of the first call of the user check, or Never

timeVars == <<clock, interval, ts_cur, ts_next, loop_pc, invoked_at>>

(***************************************************************************)
(* One call of Probe.send.                                                 *)
(***************************************************************************)
VARIABLES
    MAX_PACKAGE_SIZE,   \* probe.py:59-63, in bytes
    send_transport,     \* self._protocol and self._protocol.transport
    send_stack,         \* the calls of send that have not returned, the
                        \* running one last: result and error, and len(data)
    send_pc,            \* "call": at the head of send; "done": returned
    written             \* what transport.write was given, in order

sendVars ==
    <<MAX_PACKAGE_SIZE, send_transport, send_stack, send_pc, written>>

(***************************************************************************)
(* The supervisor Probe._start and the connect attempt Probe._connect.     *)
(***************************************************************************)
VARIABLES
    step,           \* the local step of _start
    sup_left,       \* seconds of sleep left before the next evaluation
    connecting,     \* Probe._connecting
    link,           \* "up": self._protocol has a transport; else "down"
    attempt,        \* the _connect task: "none", "new", "tcp", "announce"
    att_left,       \* seconds left of the timeout the attempt waits under
    gap,            \* seconds since the last attempt was spawned, or NoGap
    prev_gap,       \* seconds between the last two spawns, or NoGap
    in_flight,      \* the _connect tasks spawned and not ended
    shist           \* the step just taken (history, not program state)

supVars ==
    <<step, sup_left, connecting, link, attempt, att_left, gap, prev_gap, in_flight,
      shist>>

(***************************************************************************)
(* The configuration document under encrypt and decrypt (config.py).       *)
(***************************************************************************)
VARIABLES
    orig,           \* the document as yaml.safe_load returned it
    doc,            \* the document in memory
    crypt_pc        \* "idle", "loaded", "encrypted", "decrypted"

cryptVars == <<orig, doc, crypt_pc>>

(***************************************************************************)
(* A call of get_config (config.py) and of Probe._asset_config.            *)
(***************************************************************************)
VARIABLES
    gc_conf,        \* the document passed as conf
    gc_asset_id,    \* the asset id passed
    gc_use,         \* the check's _use value
    gc_result,      \* what the call returned or raised
    gc_pc           \* "idle", "call", "returned"

gcVars == <<gc_conf, gc_asset_id, gc_use, gc_result, gc_pc>>

(***************************************************************************)
(* The configuration file and its copy in memory (hot reload).             *)
(***************************************************************************)
VARIABLES
    file_content,        \* what the configuration file holds
    file_mtime,          \* its st_mtime
    local_config,        \* Probe._local_config
    local_config_mtime,  \* Probe._local_config_mtime
    rhist                \* the step just taken (history, not program state)

reloadVars == <<file_content, file_mtime, local_config, local_config_mtime, rhist>>

\* what the steps of the probe leave alone, beside stopped
otherThanProbe == <<protoVars, timeVars, sendVars, supVars, cryptVars, gcVars, reloadVars>>

\* what the steps of a Protocol leave alone
otherThanProtocol == <<probeVars, timeVars, sendVars, supVars, cryptVars, gcVars, reloadVars>>

\* what the steps of the timed runner leave alone
otherThanTime == <<probeVars, protoVars, sendVars, supVars, cryptVars, gcVars, reloadVars>>

\* what the steps of send leave alone
otherThanSend == <<probeVars, protoVars, timeVars, supVars, cryptVars, gcVars, reloadVars>>

\* what a reload and a change of the file leave alone
otherThanReload == <<probeVars, protoVars, timeVars, sendVars, supVars, cryptVars, gcVars>>

\* what a call of get_config leaves alone
otherThanGc == <<probeVars, protoVars, timeVars, sendVars, supVars, cryptVars, reloadVars>>

\* what encrypt and decrypt leave alone
otherThanCrypt == <<probeVars, protoVars, timeVars, sendVars, supVars, gcVars, reloadVars>>

\* what the steps of the supervisor and of the attempt leave alone
otherThanSup == <<probeVars, protoVars, timeVars, sendVars, cryptVars, gcVars, reloadVars>>

vars == <<probeVars, protoVars, timeVars, sendVars, supVars, cryptVars, gcVars, reloadVars>>

\* tasks maps the identity of every task that exists to its state.  A task
\* is identified by its path and a serial number that no other existing
\* task of the path has.  Its state is where its coroutine is suspended:
\*   "new"        created by ensure_future, first step not run yet
\*   "sleep"      awaiting asyncio.sleep (probe.py:327)
\*   "check"      awaiting the user check (probe.py:346)
\*   "done"       the coroutine returned
\*   "cancelled"  the task ended cancelled (task.cancelled() is true)
\*   "error"      the coroutine raised
\* cancel: task.cancel() was called and the CancelledError is not thrown
\* into the coroutine yet.  my_task: the local of probe.py:312.
NoId == <<<<0, 0>>, 0>>
NewTask == [pc |-> "new", cancel |-> FALSE, my_task |-> NoId]

Alive(t) == t.pc \in {"new", "sleep", "check"}
Finished(t) == t.pc \in {"done", "cancelled", "error"}

NoHist == [op |-> "none"]

\* asyncio.Task.cancel(): a no-op on a finished task
TaskCancel(t) == IF Alive(t) THEN [t EXCEPT !.cancel = TRUE] ELSE t

\* A finished task that Probe._checks does not hold is garbage: nothing
\* refers to it any more.
Collect(ts, cs) ==
    Restrict(ts, { i \in DOMAIN ts :
                     Alive(ts[i]) \/ (\E p \in DOMAIN cs : cs[p] = i) })

\* the identity of the task ensure_future creates for path p
NewId(p, ts) == <<p, MinOf({ k \in 0..MaxTasks : <<p, k>> \notin DOMAIN ts })>>

(***************************************************************************)
(* Probe._set_new_checks_config, probe.py:283-303.                         *)
(***************************************************************************)
\* mutant: the loop of probe.py:286-289 pops nothing
PoppedPaths_none(new) == {}

\* probe.py:287-289: paths whose task is popped and cancelled
PoppedPaths(new) == { p \in DOMAIN checks : p \notin DOMAIN new }

\* probe.py:290-294: desired paths whose config changed and whose task
\* ended cancelled; the entry is deleted so that the path is started again.
\* (self._checks_config[path] raises KeyError for a path without config.)
RescheduledPaths(new) ==
    { p \in DOMAIN checks :
        /\ p \in DOMAIN new
        /\ p \in DOMAIN checks_config
        /\ new[p] # checks_config[p]
        /\ tasks[checks[p]].pc = "cancelled" }

\* probe.py:286-294, the loop over set(self._checks): the entries that stay
ChecksAfterLoop(popped, resched) ==
    Restrict(checks, DOMAIN checks \ (popped \cup resched))

\* mutant: the popped tasks are not cancelled
TasksAfterLoop_nocancel(popped) == tasks

\* probe.py:289: .cancel() on every popped task
TasksAfterLoop(popped) ==
    [i \in DOMAIN tasks |->
        IF \E p \in popped : checks[p] = i
        THEN TaskCancel(tasks[i]) ELSE tasks[i]]

\* probe.py:300: desired_checks - set(self._checks)
PathsToStart(new, cs) == DOMAIN new \ DOMAIN cs

set_new_checks_config(new) ==
    LET popped == PoppedPaths(new)
        resched == RescheduledPaths(new)
        cs == ChecksAfterLoop(popped, resched)
        ts == Collect(TasksAfterLoop(popped), cs)
        start == PathsToStart(new, cs)
        started == [p \in start |-> NewId(p, ts)]
    IN  /\ Cardinality(DOMAIN ts) + Cardinality(start) <= MaxTasks
        /\ checks_config' = new
        /\ checks' = started @@ cs
        /\ tasks' = [i \in { started[p] : p \in start } |-> NewTask] @@ ts

\* mutant: the dict comprehension without its filter on the check key
DictOfEntries_unfiltered(msg) ==
    LET keys == { msg[i][1] : i \in 1..Len(msg) }
    IN  [p \in keys |->
            LET i == MaxOf({ j \in 1..Len(msg) : msg[j][1] = p })
            IN  <<msg[i][2], msg[i][3]>>]

\* probe.py:277-280 and 269-272: the dict comprehension over the entries,
\* keeping those whose check key is registered; a later entry with the same
\* path replaces an earlier one
DictOfEntries(msg) ==
    LET idx == { i \in 1..Len(msg) : msg[i][2][CHECK_NAME_IDX] \in checks_funs }
        keys == { msg[i][1] : i \in idx }
    IN  [p \in keys |->
            LET i == MaxOf({ j \in idx : msg[j][1] = p })
            IN  <<msg[i][2], msg[i][3]>>]

\* mutant: the comprehension of probe.py:257-260 keeps nothing
ConfigWithoutAssets_none(ids) == EmptyMap

\* probe.py:257-260 and 265-268: the current assignments of the other assets
ConfigWithoutAssets(ids) ==
    Restrict(checks_config, { p \in DOMAIN checks_config : p[ASSET_ID] \notin ids })

\* Probe._on_set_assets, probe.py:276-281
OnSetAssets(msg) ==
    /\ hist = NoHist
    /\ set_new_checks_config(DictOfEntries(msg))
    /\ hist' = [op |-> "set_assets", msg |-> msg]

\* Probe._on_upsert_asset, probe.py:263-274
OnUpsertAsset(asset_id, msg) ==
    /\ hist = NoHist
    /\ set_new_checks_config(DictOfEntries(msg) @@ ConfigWithoutAssets({asset_id}))
    /\ hist' = [op |-> "upsert_asset", asset |-> asset_id, msg |-> msg]

\* Probe._on_unset_assets, probe.py:255-261
OnUnsetAssets(asset_ids) ==
    /\ hist = NoHist
    /\ set_new_checks_config(ConfigWithoutAssets(asset_ids))
    /\ hist' = [op |-> "unset_assets", ids |-> asset_ids]

(***************************************************************************)
(* Probe._run_check_loop, probe.py:305-395: one action per stretch of the  *)
(* coroutine between two awaits.                                           *)
(***************************************************************************)
\* config.py:48: get_config(conf, probe_name, asset_id) has three parameters
get_config_params == 3
\* probe.py:253: get_config(self._local_config, self.name, asset_id, use) is
\* called with four positional arguments
get_config_args == 4

\* Probe._asset_config, probe.py:247-253: the call of get_config raises
\* TypeError when the number of arguments is not the number of parameters;
\* the try of lines 248-251 covers _read_local_config only
AssetConfigRaises == get_config_args # get_config_params

PathOf(i) == i[1]

SetTask(i, t) == Collect([tasks EXCEPT ![i] = t], checks)

\* The first step of the task, probe.py:306-327 up to the first sleep.  A
\* task cancelled before its first step never runs its coroutine and ends
\* cancelled.  Line 307 raises KeyError without a config for the path
\* (_interval is a positive integer in every config of the messages here,
\* so the assertion of line 314 passes).
RunnerStart(i) ==
    LET t == tasks[i]
    IN  /\ hist = NoHist
        /\ t.pc = "new"
        /\ tasks' = SetTask(i,
              IF t.cancel THEN [t EXCEPT !.pc = "cancelled", !.cancel = FALSE]
              ELSE IF PathOf(i) \notin DOMAIN checks_config \/ PathOf(i) \notin DOMAIN checks
                   THEN [t EXCEPT !.pc = "error"]
                   ELSE [t EXCEPT !.pc = "sleep", !.my_task = checks[PathOf(i)]])
        /\ hist' = [op |-> "start", task |-> i]
        /\ UNCHANGED <<checks_config, checks>>

\* The sleep of probe.py:327 ends.  If the task was cancelled the
\* CancelledError is caught (328-330) and the loop is left: the coroutine
\* returns.  Otherwise the tick runs lines 331-340: it reads the config of
\* the path and resolves the asset options, and only then (346) awaits the
\* user check.
RunnerWake(i) ==
    LET t == tasks[i]
    IN  /\ hist = NoHist
        /\ t.pc = "sleep"
        /\ IF t.cancel
           THEN /\ tasks' = SetTask(i, [t EXCEPT !.pc = "done", !.cancel = FALSE])
                /\ hist' = [op |-> "sleep_cancelled", task |-> i]
           ELSE /\ tasks' = SetTask(i,
                      IF PathOf(i) \notin DOMAIN checks_config \/ AssetConfigRaises
                      THEN [t EXCEPT !.pc = "error"]
                      ELSE [t EXCEPT !.pc = "check"])
                /\ hist' = [op |-> "tick", task |-> i]
        /\ UNCHANGED <<checks_config, checks>>

\* What the awaited user check can do (probe.py:346-367): return a dict,
\* return something else, raise one of the libprobe exceptions, run into
\* the timeout of wait_for, or raise anything else.
Outcomes ==
    { "dict", "not_dict", "IgnoreResultException", "IgnoreCheckException",
      "CheckException", "IncompleteResultException", "TimeoutError",
      "Exception" }

\* probe.py:344-392: what is passed to self.send for an outcome (sent is
\* FALSE when nothing is sent) and whether the loop goes on
Classify(o) ==
    CASE o = "dict" ->
            [sent |-> TRUE, result |-> "res", error |-> "None", loop |-> TRUE]
      [] o = "IgnoreResultException" ->
            [sent |-> FALSE, result |-> "None", error |-> "None", loop |-> TRUE]
      [] o = "IgnoreCheckException" ->
            [sent |-> FALSE, result |-> "None", error |-> "None", loop |-> FALSE]
      [] o = "IncompleteResultException" ->
            [sent |-> TRUE, result |-> "e.result", error |-> "e.to_dict()", loop |-> TRUE]
      [] OTHER ->
            \* CheckException, and TimeoutError, TypeError for a result that
            \* is no dict and any other exception raised again as one
            [sent |-> TRUE, result |-> "None", error |-> "e.to_dict()", loop |-> TRUE]

\* The await of the user check (probe.py:346) ends, probe.py:348-395.  A
\* cancellation thrown into it is taken for the task's own (and sent as a
\* CheckException) when the task is still the one registered for its path
\* (355-357), and ends the loop otherwise (358-359).
\* No task reaches "check" (see RunnerWake and AssetConfigRaises), so this
\* step is never enabled and is no disjunct of Next.
CheckDone(i, o) ==
    LET t == tasks[i]
        own == PathOf(i) \in DOMAIN checks /\ checks[PathOf(i)] = t.my_task
        c == IF t.cancel /\ own THEN Classify("CheckException")
             ELSE IF t.cancel THEN
                [sent |-> FALSE, result |-> "None", error |-> "None", loop |-> FALSE]
             ELSE Classify(o)
    IN  /\ hist = NoHist
        /\ t.pc = "check"
        /\ tasks' = SetTask(i, [t EXCEPT !.pc = IF c.loop THEN "sleep" ELSE "done",
                                         !.cancel = FALSE])
        /\ hist' = [op |-> "check_done", task |-> i, outcome |-> o,
                    cancelled |-> t.cancel, send |-> c]
        /\ UNCHANGED <<checks_config, checks>>

\* Task identities are object identities; which serial number names a task
\* means nothing.  Renumbered(i) gives the registered task of a path serial
\* 0 and the other tasks of the path the serials 1, 2, ... (ordered by their
\* state), a one-to-one renaming of the tasks that exist.
PcRank(t) == CASE t.pc = "new" -> 0 [] t.pc = "sleep" -> 1 [] OTHER -> 2
Registered(i) == PathOf(i) \in DOMAIN checks /\ checks[PathOf(i)] = i
Renumbered(i) ==
    IF i = NoId THEN NoId
    ELSE IF Registered(i) THEN <<PathOf(i), 0>>
    ELSE <<PathOf(i),
           1 + Cardinality({ j \in DOMAIN tasks :
                 /\ PathOf(j) = PathOf(i) /\ j # i /\ ~Registered(j)
                 /\ \/ PcRank(tasks[j]) < PcRank(tasks[i])
                    \/ PcRank(tasks[j]) = PcRank(tasks[i]) /\ j[2] < i[2] })>>

\* The callback or task step returned to the event loop: its record is
\* dropped.  Between two steps nothing runs, so nothing of the program's
\* state changes; the tasks are renumbered.
Return ==
    /\ hist # NoHist
    /\ hist' = NoHist
    /\ checks' = [p \in DOMAIN checks |-> Renumbered(checks[p])]
    /\ tasks' = [n \in { Renumbered(i) : i \in DOMAIN tasks } |->
                    LET i == CHOOSE j \in DOMAIN tasks : Renumbered(j) = n
                    IN  [tasks[i] EXCEPT !.my_task = Renumbered(tasks[i].my_task)]]
    /\ UNCHANGED checks_config

\* mutant: the loop of probe.py:123-124 cancels no task
CancelAll_none(ts) == ts

\* probe.py:123-124: task.cancel() for every task of asyncio.all_tasks()
CancelAll(ts) == [i \in DOMAIN ts |-> TaskCancel(ts[i])]

\* Probe._stop, probe.py:120-124, the handler of SIGINT and SIGTERM: every
\* task of the loop is cancelled.  The handler is taken between two steps
\* of the loop: a cancellation is delivered at the next suspension of the
\* task, so a signal in the middle of a step does what a signal right after
\* the step does.
Stop ==
    /\ hist = NoHist
    /\ ~stopped
    /\ stopped' = TRUE
    /\ tasks' = CancelAll(tasks)
    /\ hist' = [op |-> "stop"]
    /\ UNCHANGED <<checks_config, checks>>

ProbeInit ==
    /\ checks_config = EmptyMap
    /\ checks = EmptyMap
    /\ tasks = EmptyMap
    /\ stopped = FALSE
    /\ hist = NoHist


(***************************************************************************)
(* Protocol (libprobe/net/protocol.py).                                    *)
(*                                                                         *)
(* A call of request() is named by its number r in the order of the       *)
(* calls: futs[r] is the future it made and timers[r] its _timer task.    *)
(* The agentcore answers a request it has received at most once, with a   *)
(* frame that echoes the pid and carries a body of that request; the      *)
(* frame is a header chunk followed by a body chunk, and a read delivers  *)
(* any non-empty prefix of what the agentcore has written.                 *)
(***************************************************************************)
MaxRequests == 3

PidMod == 65536

\* the timeout argument of request(): None or 0 make no timer
Timeouts == {0, 10}

None == "None"
NoCall == 0
NoPackage == <<>>

\* the body the agentcore answers the r-th request with
Body(r) == r

\* the bytes of the response to the r-th request
FrameOf(r) ==
    << [chunk |-> "header", pid |-> futs[r].pid],
       [chunk |-> "body", data |-> Body(r), decode |-> "ok"] >>

\* what extract_data_from can make of the body of a frame: decode it, raise
\* KeyError (a type it does not know), or raise another exception
Decodes == {"ok", "KeyError", "Exception"}

\* the bytes of a frame that is no response and whose body decodes as d
PushFrame(d) ==
    << [chunk |-> "header", pid |-> 0],
       [chunk |-> "body", data |-> NoCall, decode |-> d] >>

NewFuture(p) == [pid |-> p, state |-> "pending", value |-> NoCall, sets |-> 0]

\* Future.set_result / Future.set_exception on the future of call f: a
\* future that is done stays as it is (asyncio raises InvalidStateError)
SetDone(fs, f, st, v) ==
    IF fs[f].state = "pending"
    THEN [fs EXCEPT ![f].state = st, ![f].value = v, ![f].sets = @ + 1]
    ELSE [fs EXCEPT ![f].sets = @ + 1]

\* Task.cancel() on a _timer task: it ends at its sleep, with no effect
TimerCancel(ts, t) ==
    IF t # NoCall /\ ts[t] = "sleep" THEN [ts EXCEPT ![t] = "cancelled"] ELSE ts

Without(reqs, p) == [q \in DOMAIN reqs \ {p} |-> reqs[q]]

ProtocolFresh ==
    /\ pid = 0
    /\ requests = EmptyMap
    /\ transport = None
    /\ buffered_data = <<>>
    /\ package = NoPackage
    /\ futs = <<>>
    /\ timers = <<>>
    /\ asked = {}
    /\ stream = <<>>
    /\ conn = "new"
    /\ phist = NoHist

\* A connected protocol that has made PidMod - 1 calls of request(): the
\* first (pid 1), made with or without a timeout, has no answer yet and its
\* timer has not fired; the others have been answered.  The next call but
\* one reaches pid 1 again.
ProtocolAged ==
    /\ pid = PidMod - 1
    /\ \E timeout \in Timeouts :
          /\ requests = [p \in {1} |->
                            [future |-> 1,
                             task |-> IF timeout # 0 THEN 1 ELSE NoCall]]
          /\ timers = << IF timeout # 0 THEN "sleep" ELSE None >>
    /\ transport = "transport"
    /\ buffered_data = <<>>
    /\ package = NoPackage
    /\ futs = << NewFuture(1) >>
    /\ asked = {1}
    /\ stream = <<>>
    /\ conn = "open"
    /\ phist = NoHist

connection_made ==
    /\ conn = "new"
    /\ conn' = "open"
    /\ transport' = "transport"
    /\ phist' = [op |-> "connection_made"]
    /\ UNCHANGED <<pid, requests, buffered_data, package, futs, timers, asked, stream>>

\* what is on its way from the agentcore is lost with the connection
connection_lost ==
    /\ conn = "open"
    /\ conn' = "closed"
    /\ transport' = None
    /\ package' = NoPackage
    /\ buffered_data' = <<>>
    /\ asked' = {}
    /\ stream' = <<>>
    /\ phist' = [op |-> "connection_lost",
                 pending |-> { r \in DOMAIN futs : futs[r].state = "pending" }]
    /\ UNCHANGED <<pid, requests, futs, timers>>

\* request(pkg, timeout): the assert on the transport comes after the timer
\* and the entry are made; when it fails the caller gets no future
request(timeout) ==
    LET r == Len(futs) + 1
        p == (pid + 1) % PidMod
        task == IF timeout # 0 THEN r ELSE NoCall
    IN  /\ r <= MaxRequests
        /\ pid' = p
        /\ timers' = Append(timers, IF timeout # 0 THEN "sleep" ELSE None)
        /\ futs' = Append(futs, NewFuture(p))
        /\ requests' = [q \in DOMAIN requests \cup {p} |->
                           IF q = p THEN [future |-> r, task |-> task]
                           ELSE requests[q]]
        /\ asked' = IF transport # None THEN asked \cup {r} ELSE asked
        /\ phist' = [op |-> "request", call |-> r, pid_before |-> pid,
                     raised |-> (transport = None)]
        /\ UNCHANGED <<transport, buffered_data, package, stream, conn>>

\* _timer(pid, timeout) of call r, after its sleep
timer(r) ==
    LET p == futs[r].pid
    IN  /\ timers[r] = "sleep"
        /\ timers' = [timers EXCEPT ![r] = "done"]
        /\ IF p \in DOMAIN requests
           THEN /\ requests' = Without(requests, p)
                /\ futs' = SetDone(futs, requests[p].future, "TimeoutError", NoCall)
           ELSE UNCHANGED <<requests, futs>>
        /\ phist' = [op |-> "timer", call |-> r]
        /\ UNCHANGED <<pid, transport, buffered_data, package, asked, stream, conn>>

\* _get_future(pkg): the entry of the pid is taken out, its timer cancelled
get_future(reqs, ts, p) ==
    IF p \notin DOMAIN reqs
    THEN [future |-> NoCall, requests |-> reqs, timers |-> ts]
    ELSE [future |-> reqs[p].future,
          requests |-> Without(reqs, p),
          timers |-> TimerCancel(ts, reqs[p].task)]

\* AgentcoreProtocol.on_package_received for a response: the future of the
\* entry is resolved with the body; without an entry the frame is dropped
on_package_received(st, pkg) ==
    LET g == get_future(st.requests, st.timers, pkg.pid)
    IN  [st EXCEPT !.requests = g.requests,
                   !.timers = g.timers,
                   !.futs = IF g.future = NoCall THEN @
                            ELSE SetDone(@, g.future, "result", pkg.data),
                   !.got = Append(@, [pid |-> pkg.pid, data |-> pkg.data,
                                      future |-> g.future])]

\* Package(buffer): the header gives the pid and the size of the frame
Package(buf) == [pid |-> buf[1].pid, total |-> 2]

\* Package.extract_data_from(buffer): the frame is taken off the buffer,
\* whether its body decodes or not
extract_data_from(pkg, buf) ==
    [outcome |-> buf[pkg.total].decode,
     data |-> buf[pkg.total].data,
     buf |-> SubSeq(buf, pkg.total + 1, Len(buf))]

\* mutant: the buffer is left as it is
Cleared_not(buf) == buf

\* protocol.py:81: self._buffered_data.clear()
Cleared(buf) == <<>>

\* the loop of data_received over the buffer, protocol.py:66-84
RECURSIVE DataLoop(_)
DataLoop(st) ==
    IF st.buf = <<>> THEN st
    ELSE IF st.package = NoPackage /\ Len(st.buf) < 1 THEN st
    ELSE LET pkg == IF st.package = NoPackage THEN Package(st.buf)
                    ELSE st.package[1]
         IN  IF Len(st.buf) < pkg.total
             THEN [st EXCEPT !.package = <<pkg>>]
             ELSE LET x == extract_data_from(pkg, st.buf)
                      next == [st EXCEPT !.buf = x.buf, !.package = NoPackage]
                  IN  IF x.outcome = "KeyError" THEN DataLoop(next)
                      ELSE IF x.outcome = "Exception"
                      THEN DataLoop([next EXCEPT
                                        !.buf = Cleared(x.buf),
                                        !.cut = Len(x.buf) % pkg.total # 0])
                      ELSE DataLoop(on_package_received(
                                       next, [pid |-> pkg.pid, data |-> x.data]))

\* data_received(data), data being the first n chunks not read yet.  When
\* the buffer is emptied with the head of a frame in it, the rest of that
\* frame arrives as if it were a header; what Package makes of it is not
\* modelled, and nothing is read from that connection any more.
data_received(n) ==
    LET st == DataLoop([buf |-> buffered_data \o SubSeq(stream, 1, n),
                        package |-> package,
                        requests |-> requests,
                        futs |-> futs,
                        timers |-> timers,
                        got |-> <<>>,
                        cut |-> FALSE])
    IN  /\ conn = "open"
        /\ conn' = IF st.cut THEN "garbled" ELSE conn
        /\ stream' = SubSeq(stream, n + 1, Len(stream))
        /\ buffered_data' = st.buf
        /\ package' = st.package
        /\ requests' = st.requests
        /\ futs' = st.futs
        /\ timers' = st.timers
        /\ phist' = [op |-> "data_received", got |-> st.got,
                     buf |-> buffered_data \o SubSeq(stream, 1, n)]
        /\ UNCHANGED <<pid, transport, asked>>

\* the agentcore writes its response to the r-th request
Answer(r) ==
    /\ conn = "open"
    /\ asked' = asked \ {r}
    /\ stream' = stream \o FrameOf(r)
    /\ phist' = [op |-> "answer", call |-> r]
    /\ UNCHANGED <<pid, requests, transport, buffered_data, package, futs, timers, conn>>

(***************************************************************************)
(* The times of Probe._run_check_loop, probe.py:305-347.  Times are whole  *)
(* seconds: random.random() * interval, a number in [0, interval), is      *)
(* taken by its whole part.                                                *)
(***************************************************************************)
MaxInterval == 3

\* probe.py:317, the 60.0 added to the first ts_next
FirstDelay == 60

Never == -1

\* how far the clock is followed
Horizon == FirstDelay + MaxInterval + 2

\* a runner just made by ensure_future (probe.py:301) for a path whose
\* config has _interval = 1
TimeIdle ==
    /\ clock = 0
    /\ interval = 1
    /\ ts_cur = 0
    /\ ts_next = 0
    /\ loop_pc = "new"
    /\ invoked_at = Never

\* the same, for any positive _interval
TimeInit ==
    /\ clock = 0
    /\ interval \in 1..MaxInterval
    /\ ts_cur = 0
    /\ ts_next = 0
    /\ loop_pc = "new"
    /\ invoked_at = Never

\* probe.py:306-327: the first step of the runner, up to its first sleep;
\* r is the whole part of random.random() * interval
FirstStep(r) ==
    /\ loop_pc = "new"
    /\ ts_cur' = clock
    /\ ts_next' = (clock + r) + FirstDelay
    /\ loop_pc' = "sleep"
    /\ UNCHANGED <<clock, interval, invoked_at>>

\* a second passes; a sleeping runner is woken when its time has come
ClockTick ==
    /\ clock < Horizon
    /\ loop_pc = "sleep" => clock < ts_cur + (ts_next - ts_cur)
    /\ loop_pc # "new"
    /\ clock' = clock + 1
    /\ UNCHANGED <<interval, ts_cur, ts_next, loop_pc, invoked_at>>

\* probe.py:327-347: the sleep of ts_next - ts_cur seconds is over; the tick
\* resolves the asset options and then calls the user check
FirstWake ==
    /\ loop_pc = "sleep"
    /\ clock >= ts_cur + (ts_next - ts_cur)
    /\ ts_cur' = ts_next
    /\ IF AssetConfigRaises
       THEN loop_pc' = "error" /\ UNCHANGED invoked_at
       ELSE loop_pc' = "check" /\ invoked_at' = clock
    /\ UNCHANGED <<clock, interval, ts_next>>

TimeNext ==
    \/ \E r \in 0..(interval - 1) : FirstStep(r) /\ UNCHANGED otherThanTime
    \/ ClockTick /\ UNCHANGED otherThanTime
    \/ FirstWake /\ UNCHANGED otherThanTime

(***************************************************************************)
(* Probe.send, probe.py:181-208.  The bytes of a frame are taken by their  *)
(* number.                                                                 *)
(***************************************************************************)
MaxDepth == 3

\* probe.py:59-60: the range MAX_PACKAGE_SIZE is meant to lie in, in kB
MinPackageKB == 1
MaxPackageKB == 2000
\* probe.py:63
KB == 1000
\* probe.py:59: the default
DefaultPackageKB == 500

\* what the runner passes as (result, error), probe.py:382, 388, 392
SendArgs ==
    { [result |-> "res", error |-> "None"],
      [result |-> "e.result", error |-> "e.to_dict()"],
      [result |-> "None", error |-> "e.to_dict()"] }

\* lengths of the frame of a call: small ones, and ones about the limits
FrameLens ==
    { 100, 999, 1000, 1001, 500000, 500001, 2000000, 2000001 }

RECURSIVE Digits(_)
Digits(n) == IF n < 10 THEN 1 ELSE 1 + Digits(n \div 10)

\* len(pkg.to_bytes()) of the frame made for the CheckException of
\* probe.py:204: header, path, the keys, the duration and the timestamp
\* take less than FallbackBase bytes, and the message names the length
FallbackBase == 200
FallbackLen(n) == FallbackBase + Digits(n)

\* mutant: every frame is taken for too large
TooLarge_always(n) == TRUE

\* probe.py:203
TooLarge(n) == n > MAX_PACKAGE_SIZE

Running == send_stack[Len(send_stack)]

SendIdle ==
    /\ MAX_PACKAGE_SIZE = DefaultPackageKB * KB
    /\ send_transport = TRUE
    /\ send_stack = <<>>
    /\ send_pc = "done"
    /\ written = <<>>

\* a call send(path, result, error, ts) by a runner, with a setting of
\* MAX_PACKAGE_SIZE in its range and the probe connected or not
SendInit ==
    /\ \E kb \in MinPackageKB..MaxPackageKB : MAX_PACKAGE_SIZE = kb * KB
    /\ send_transport \in BOOLEAN
    /\ \E a \in SendArgs, n \in FrameLens :
          send_stack = << [args |-> a, len |-> n] >>
    /\ send_pc = "call"
    /\ written = <<>>

\* probe.py:203-206: the frame is too large, send calls itself with the
\* error in place of the result
SendTooLarge ==
    /\ send_pc = "call"
    /\ TooLarge(Running.len)
    /\ Len(send_stack) < MaxDepth
    /\ send_stack' = Append(send_stack,
           [args |-> [result |-> "None", error |-> "data package too large"],
            len |-> FallbackLen(Running.len)])
    /\ UNCHANGED <<MAX_PACKAGE_SIZE, send_transport, send_pc, written>>

\* probe.py:207-208: the frame is written if there is a transport; the
\* call and its callers return
SendWrite ==
    /\ send_pc = "call"
    /\ ~TooLarge(Running.len)
    /\ written' = IF send_transport THEN Append(written, Running) ELSE written
    /\ send_pc' = "done"
    /\ UNCHANGED <<MAX_PACKAGE_SIZE, send_transport, send_stack>>

SendNext ==
    \/ SendTooLarge /\ UNCHANGED otherThanSend
    \/ SendWrite /\ UNCHANGED otherThanSend

(***************************************************************************)
(* Probe._start, probe.py:126-138, and Probe._connect, probe.py:151-179.   *)
(* Time passes in seconds; what is due (an evaluation, a timeout, the      *)
(* first step of a task) runs before the next second passes.               *)
(***************************************************************************)
\* probe.py:127
initial_step == 2
\* probe.py:129
max_step == 128
\* probe.py:164, the timeout of wait_for(conn)
ConnectTimeout == 10
\* probe.py:175, the timeout of the ANNOUNCE request
AnnounceTimeout == 10

NoGap == -1

Min(a, b) == IF a <= b THEN a ELSE b

\* Probe.is_connected, probe.py:114-115
is_connected == link = "up"

\* mutant: the test of _connecting is dropped from probe.py:132
is_connecting_never == FALSE

\* mutant: the supervisor always takes an attempt to be under way
is_connecting_always == TRUE

\* Probe.is_connecting, probe.py:117-118
is_connecting == connecting

\* the state when _start has run up to its loop (probe.py:127-131)
SupInit ==
    /\ step = initial_step
    /\ sup_left = 0
    /\ connecting = FALSE
    /\ link = "down"
    /\ attempt = "none"
    /\ att_left = 0
    /\ gap = NoGap
    /\ prev_gap = NoGap
    /\ in_flight = 0
    /\ shist = NoHist

\* probe.py:132-138: one evaluation of the loop of _start, up to its sleep
Evaluate ==
    LET spawn == ~is_connected /\ ~is_connecting
    IN  /\ sup_left = 0
        /\ attempt # "new"
        /\ step' = IF spawn THEN Min(step * 2, max_step) ELSE initial_step
        /\ sup_left' = step'
        /\ attempt' = IF spawn THEN "new" ELSE attempt
        /\ gap' = IF spawn THEN 0 ELSE gap
        /\ prev_gap' = IF spawn THEN gap ELSE prev_gap
        /\ in_flight' = IF spawn THEN in_flight + 1 ELSE in_flight
        /\ shist' = [op |-> "evaluate", connected |-> is_connected,
                     connecting |-> is_connecting, spawned |-> spawn,
                     step_before |-> step, gap |-> gap, prev_gap |-> prev_gap]
        /\ UNCHANGED <<connecting, link, att_left>>

\* a second passes for the sleeping supervisor and the waiting attempt
Second ==
    /\ sup_left > 0
    /\ attempt # "new"
    /\ attempt \in {"tcp", "announce"} => att_left > 0
    /\ sup_left' = sup_left - 1
    /\ att_left' = IF attempt = "none" THEN att_left ELSE att_left - 1
    /\ gap' = IF gap = NoGap THEN NoGap ELSE gap + 1
    /\ shist' = [op |-> "second"]
    /\ UNCHANGED <<step, connecting, link, attempt, prev_gap, in_flight>>

\* probe.py:152-164: the first step of _connect, up to wait_for(conn)
AttemptStart ==
    /\ attempt = "new"
    /\ connecting' = TRUE
    /\ attempt' = "tcp"
    /\ att_left' = ConnectTimeout
    /\ shist' = [op |-> "attempt_start"]
    /\ UNCHANGED <<step, sup_left, link, gap, prev_gap, in_flight>>

\* probe.py:165-167 and 178-179: create_connection raised (the connection
\* was refused, at once or later) or wait_for ran into its timeout
ConnectFails(how) ==
    /\ attempt = "tcp"
    /\ how = "timeout" => att_left = 0
    /\ how = "refused" => att_left > 0
    /\ connecting' = FALSE
    /\ attempt' = "none"
    /\ in_flight' = in_flight - 1
    /\ shist' = [op |-> "attempt_failed", at |-> "connect", how |-> how]
    /\ UNCHANGED <<step, sup_left, link, att_left, gap, prev_gap>>

\* probe.py:164 and 168-175: the connection is made, self._protocol is the
\* new protocol with its transport, and the ANNOUNCE request is awaited
ConnectOk ==
    /\ attempt = "tcp"
    /\ att_left > 0
    /\ link' = "up"
    /\ attempt' = "announce"
    /\ att_left' = AnnounceTimeout
    /\ gap' = NoGap
    /\ prev_gap' = NoGap
    /\ shist' = [op |-> "connect_ok"]
    /\ UNCHANGED <<step, sup_left, connecting, in_flight>>

\* probe.py:164, 173 and 178-179: the connection is made and lost again
\* before the task goes on; self._protocol has no transport and no
\* ANNOUNCE request is made
ConnectDropped ==
    /\ attempt = "tcp"
    /\ att_left > 0
    /\ connecting' = FALSE
    /\ attempt' = "none"
    /\ in_flight' = in_flight - 1
    /\ gap' = NoGap
    /\ prev_gap' = NoGap
    /\ shist' = [op |-> "attempt_failed", at |-> "announce", how |-> "dropped"]
    /\ UNCHANGED <<step, sup_left, link, att_left>>

\* probe.py:175 and 178-179: the response to ANNOUNCE resolves the future
AnnounceOk ==
    /\ attempt = "announce"
    /\ link = "up"
    /\ att_left > 0
    /\ connecting' = FALSE
    /\ attempt' = "none"
    /\ in_flight' = in_flight - 1
    /\ shist' = [op |-> "announce_ok"]
    /\ UNCHANGED <<step, sup_left, link, att_left, gap, prev_gap>>

\* probe.py:176-179: the timer of the request fails the future with
\* TimeoutError, which is logged
AnnounceFails ==
    /\ attempt = "announce"
    /\ att_left = 0
    /\ connecting' = FALSE
    /\ attempt' = "none"
    /\ in_flight' = in_flight - 1
    /\ shist' = [op |-> "attempt_failed", at |-> "announce", how |-> "timeout"]
    /\ UNCHANGED <<step, sup_left, link, att_left, gap, prev_gap>>

\* Protocol.connection_lost, protocol.py:29-35: the transport is dropped; a
\* pending ANNOUNCE is left to its timer
LinkLost ==
    /\ link = "up"
    /\ link' = "down"
    /\ shist' = [op |-> "connection_lost"]
    /\ UNCHANGED <<step, sup_left, connecting, attempt, att_left, gap, prev_gap,
                   in_flight>>

SupNext ==
    \/ Evaluate /\ UNCHANGED otherThanSup
    \/ Second /\ UNCHANGED otherThanSup
    \/ AttemptStart /\ UNCHANGED otherThanSup
    \/ \E how \in {"refused", "timeout"} : ConnectFails(how) /\ UNCHANGED otherThanSup
    \/ ConnectOk /\ UNCHANGED otherThanSup
    \/ ConnectDropped /\ UNCHANGED otherThanSup
    \/ AnnounceOk /\ UNCHANGED otherThanSup
    \/ AnnounceFails /\ UNCHANGED otherThanSup
    \/ LinkLost /\ UNCHANGED otherThanSup

(***************************************************************************)
(* encrypt and decrypt, config.py:22-45.  A value of a document is a       *)
(* string, a bytes value, a mapping or a sequence; t tells which.          *)
(***************************************************************************)
MaxDocDepth == 5

Str(x) == [t |-> "str", v |-> x]
Bytes(x) == [t |-> "bytes", v |-> x]
Dict(f) == [t |-> "dict", v |-> f]
List(q) == [t |-> "list", v |-> q]

\* the keys of the mappings of the documents tried
Keys == {"password", "secret", "opts"}

\* config.py:24 and 36
Sensitive == {"secret", "password"}

\* the values of at most d levels: a mapping has one key, a sequence one item
RECURSIVE Values(_)
Values(d) ==
    IF d = 0 THEN {Str("a")}
    ELSE LET V == Values(d - 1)
         IN  V \cup {Dict(k :> x) : k \in Keys, x \in V} \cup {List(<<x>>) : x \in V}

\* the documents tried: mappings of at most MaxDocDepth levels
Docs == {Dict(k :> x) : k \in Keys, x \in Values(MaxDocDepth - 1)}

\* fernet.encrypt(str.encode(x)), a token that is not the string
FernetEncrypt(x) == Bytes(<<"token", x>>)

\* fernet.decrypt(token).decode()
FernetDecrypt(b) == Str(b.v[2])

\* config.py:22-31: the document after encrypt(layer, fernet)
RECURSIVE encrypt(_)
encrypt(layer) ==
    Dict([k \in DOMAIN layer.v |->
        LET x == layer.v[k]
        IN  IF k \in Sensitive /\ x.t = "str"
            THEN Dict("encrypted" :> FernetEncrypt(x.v))
            ELSE IF x.t = "list"
            THEN List([i \in DOMAIN x.v |->
                    IF x.v[i].t = "dict" THEN encrypt(x.v[i]) ELSE x.v[i]])
            ELSE IF x.t = "dict" THEN encrypt(x)
            ELSE x])

\* config.py:34-45: the document after decrypt(layer, fernet)
RECURSIVE decrypt(_)
decrypt(layer) ==
    Dict([k \in DOMAIN layer.v |->
        LET x == layer.v[k]
        IN  IF k \in Sensitive /\ x.t = "dict"
            THEN IF "encrypted" \in DOMAIN x.v /\ x.v["encrypted"].t = "bytes"
                 THEN FernetDecrypt(x.v["encrypted"])
                 ELSE x
            ELSE IF x.t = "list"
            THEN List([i \in DOMAIN x.v |->
                    IF x.v[i].t = "dict" THEN decrypt(x.v[i]) ELSE x.v[i]])
            ELSE IF x.t = "dict" THEN decrypt(x)
            ELSE x])

NoDoc == Dict(<<>>)

CryptIdle == orig = NoDoc /\ doc = NoDoc /\ crypt_pc = "idle"

\* probe.py:219-222: a document that is not empty has been loaded
CryptInit == orig \in Docs /\ doc = orig /\ crypt_pc = "loaded"

\* probe.py:224
Encrypt ==
    /\ crypt_pc = "loaded"
    /\ doc' = encrypt(doc)
    /\ crypt_pc' = "encrypted"
    /\ UNCHANGED orig

\* probe.py:233
Decrypt ==
    /\ crypt_pc = "encrypted"
    /\ doc' = decrypt(doc)
    /\ crypt_pc' = "decrypted"
    /\ UNCHANGED orig

CryptNext ==
    \/ Encrypt /\ UNCHANGED otherThanCrypt
    \/ Decrypt /\ UNCHANGED otherThanCrypt

(***************************************************************************)
(* get_config, config.py:48-66, and its call in Probe._asset_config,       *)
(* probe.py:247-253.                                                       *)
(***************************************************************************)
MaxAssets == 2

Num(n) == [t |-> "int", v |-> n]
NoneVal == [t |-> "none", v |-> 0]
Raised(e) == [t |-> "raised", v |-> e]

\* dict.get
Get(d, k) == IF k \in DOMAIN d.v THEN d.v[k] ELSE NoneVal

\* the truth value Python gives a value
Truthy(x) ==
    CASE x.t = "none" -> FALSE
      [] x.t = "int" -> x.v # 0
      [] x.t = "str" -> x.v # ""
      [] OTHER -> DOMAIN x.v # {}

Range(q) == {q[i] : i \in DOMAIN q}

\* Probe.name
probe_name == "myprobe"

\* the asset ids asked for and the ids the documents name
AskedIds == {1, 2, 3}
NamedIds == {1, 2}

\* the maps of options the documents hold
OptsA == Dict("username" :> Str("alice"))
OptsB == Dict("username" :> Str("bob"))
OptsProbe == Dict("username" :> Str("charlie"))

\* the entries of `assets`: not a mapping, or a mapping with or without id
\* (one id or a list of ids) and with or without config (a map or not)
AssetEntries ==
    {Str("x")} \cup
    {Dict([k \in ks |-> IF k = "id" THEN i ELSE c]) :
        ks \in SUBSET {"id", "config"},
        i \in {Num(n) : n \in NamedIds} \cup {List(<<Num(1), Num(2)>>)},
        c \in {OptsA, OptsB, Str("x")}}

\* the values of `assets`: a list of entries, or a number
AssetsValues ==
    {List(q) : q \in UNION {[1..n -> AssetEntries] : n \in 0..MaxAssets}} \cup {Num(5)}

\* the blocks of a probe: not a mapping, or one with or without assets and
\* with or without config (a map or not)
ProbeBlocks ==
    {Str("x")} \cup
    {Dict([k \in ks |-> IF k = "assets" THEN a ELSE c]) :
        ks \in SUBSET {"assets", "config"},
        a \in AssetsValues,
        c \in {OptsProbe, Str("x")}}

\* the documents: with a block for this probe, for another one, or empty
Confs ==
    {Dict(probe_name :> b) : b \in ProbeBlocks} \cup
    {Dict("other" :> Dict("config" :> OptsProbe)), Dict(<<>>)}

\* config.py:59-61: the entry is for the asset
IdMatches(asset, asset_id) ==
    LET _asset_id == Get(asset, "id")
    IN  \/ _asset_id = Num(asset_id)
        \/ _asset_id.t = "list" /\ Num(asset_id) \in Range(_asset_id.v)

\* config.py:63 and 66
MapOrEmpty(config) == IF config.t = "dict" THEN config ELSE Dict(<<>>)

\* config.py:48-66
get_config(conf, name, asset_id) ==
    LET probe == Get(conf, name)
        assets == Get(probe, "assets")
        hits == {i \in DOMAIN assets.v :
                    assets.v[i].t = "dict" /\ IdMatches(assets.v[i], asset_id)}
    IN  IF probe.t # "dict" THEN Dict(<<>>)
        ELSE IF Truthy(assets) /\ assets.t = "int" THEN Raised("TypeError")
        ELSE IF Truthy(assets) /\ assets.t = "list" /\ hits # {}
        THEN MapOrEmpty(Get(assets.v[MinOf(hits)], "config"))
        ELSE MapOrEmpty(Get(probe, "config"))

\* probe.py:253: get_config(self._local_config, self.name, asset_id, use),
\* a call with one argument more than config.py:48 takes
asset_config(conf, asset_id, use) ==
    IF AssetConfigRaises THEN Raised("TypeError")
    ELSE get_config(conf, probe_name, asset_id)

GcIdle ==
    /\ gc_conf = NoDoc
    /\ gc_asset_id = 0
    /\ gc_use = NoneVal
    /\ gc_result = NoneVal
    /\ gc_pc = "idle"

GcInit ==
    /\ gc_conf \in Confs
    /\ gc_asset_id \in AskedIds
    /\ gc_use \in {NoneVal, Str("other")}
    /\ gc_result = NoneVal
    /\ gc_pc = "call"

\* a call of get_config with its three parameters
GetConfig ==
    /\ gc_pc = "call"
    /\ gc_result' = get_config(gc_conf, probe_name, gc_asset_id)
    /\ gc_pc' = "returned"
    /\ UNCHANGED <<gc_conf, gc_asset_id, gc_use>>

\* probe.py:340 and 253: the call the runner makes at each tick
AssetConfig ==
    /\ gc_pc = "call"
    /\ gc_result' = asset_config(gc_conf, gc_asset_id, gc_use)
    /\ gc_pc' = "returned"
    /\ UNCHANGED <<gc_conf, gc_asset_id, gc_use>>

GcNext ==
    \/ GetConfig /\ UNCHANGED otherThanGc
    \/ AssetConfig /\ UNCHANGED otherThanGc

(***************************************************************************)
(* Probe._read_local_config, probe.py:215-245, called at construction and  *)
(* by Probe._asset_config at every tick, probe.py:247-253.                 *)
(***************************************************************************)
MaxMtime == 3

\* a file yaml.safe_load raises on, and no file at all
BadYaml == [t |-> "bad", v |-> 0]
Missing == [t |-> "missing", v |-> 0]

\* documents with a block for the probe holding plain options
FileDocs ==
    {Dict(probe_name :> Dict("config" :> Dict(k :> Str(x)))) :
        k \in {"password", "username"}, x \in {"a", "b"}}

\* what the file can hold: a document, nothing (safe_load gives None), a
\* list at the top, a block that is None or a number, text that is not
\* YAML; or the file is gone
FileContents ==
    FileDocs \cup
    {NoneVal, List(<<Str("a")>>), Dict(probe_name :> NoneVal),
     Dict(probe_name :> Num(5)), BadYaml, Missing}

\* probe.py:219-245: the document made of the content of the file, or the
\* exception raised on the way
read_local_config(content) ==
    IF content.t = "missing" THEN Raised("FileNotFoundError")
    ELSE IF content.t = "bad" THEN Raised("YAMLError")
    ELSE IF ~Truthy(content) THEN Dict(<<>>)
    ELSE IF content.t # "dict" THEN Raised("AttributeError")
    ELSE LET config == decrypt(encrypt(content))
         IN  IF \E k \in DOMAIN config.v : config.v[k].t \in {"none", "int"}
             THEN Raised("TypeError")
             ELSE config

Loads(content) == read_local_config(content).t = "dict"

NoTick == [op |-> "none"]

ReloadIdle ==
    /\ file_content = NoneVal
    /\ file_mtime = 0
    /\ local_config = NoDoc
    /\ local_config_mtime = 0
    /\ rhist = NoTick

\* probe.py:108-112: the probe is constructed on a file that loads
ReloadInit ==
    /\ file_content \in {c \in FileContents : Loads(c)}
    /\ file_mtime = 1
    /\ local_config = read_local_config(file_content)
    /\ local_config_mtime = file_mtime
    /\ rhist = NoTick

\* the file is written, replaced or removed
FileChange(c) ==
    /\ file_mtime < MaxMtime
    /\ file_content' = c
    /\ file_mtime' = file_mtime + 1
    /\ rhist' = [op |-> "file"]
    /\ UNCHANGED <<local_config, local_config_mtime>>

\* probe.py:340 and 247-253: the tick of a runner of asset a calls
\* _asset_config, which reads the file again when its mtime is not the
\* cached one, keeps what it has when that raises, and calls get_config
ReloadTick(a) ==
    LET same == file_content.t # "missing" /\ file_mtime = local_config_mtime
        read == read_local_config(file_content)
        kept == same \/ read.t = "raised"
    IN  /\ local_config' = IF kept THEN local_config ELSE read
        /\ local_config_mtime' = IF kept THEN local_config_mtime ELSE file_mtime
        /\ rhist' = [op |-> "tick", same |-> same,
                     read |-> IF same THEN NoneVal ELSE read,
                     content |-> file_content,
                     doc_before |-> local_config,
                     mtime_before |-> local_config_mtime,
                     asset_id |-> a,
                     result |-> asset_config(local_config', a, NoneVal)]
        /\ UNCHANGED <<file_content, file_mtime>>

ReloadNext ==
    \/ \E c \in FileContents : FileChange(c) /\ UNCHANGED otherThanReload
    \/ \E a \in AskedIds : ReloadTick(a) /\ UNCHANGED otherThanReload

Init == ProbeInit /\ ProtocolFresh /\ TimeIdle /\ SendIdle /\ SupInit /\ CryptIdle /\ GcIdle /\ ReloadIdle

LoadInit == ProbeInit /\ ProtocolFresh /\ TimeIdle /\ SendIdle /\ SupInit /\ CryptInit /\ GcIdle /\ ReloadIdle

\* the load sequence encrypt, decrypt on every document tried
SpecCrypt == LoadInit /\ [][CryptNext]_vars

GetConfigInit ==
    ProbeInit /\ ProtocolFresh /\ TimeIdle /\ SendIdle /\ SupInit /\ CryptIdle /\ GcInit /\ ReloadIdle

\* the resolution of the options of an asset on every document tried
SpecGetConfig == GetConfigInit /\ [][GcNext]_vars

HotReloadInit ==
    ProbeInit /\ ProtocolFresh /\ TimeIdle /\ SendIdle /\ SupInit /\ CryptIdle /\ GcIdle /\ ReloadInit

\* the file changing under the ticks of the runners
SpecReload == HotReloadInit /\ [][ReloadNext]_vars

\* the supervisor, its connect attempts and the agentcore
SpecSupervisor == Init /\ [][SupNext]_vars

\* The event loop runs what is due and time passes: the evaluation of the
\* supervisor, the first step of a spawned task and the timeouts of
\* probe.py:164 and 175 are taken when they stay enabled.  An agentcore
\* that is reachable accepts one of the connections it is asked for again
\* and again.
SupFairness ==
    /\ WF_vars(Evaluate /\ UNCHANGED otherThanSup)
    /\ WF_vars(Second /\ UNCHANGED otherThanSup)
    /\ WF_vars(AttemptStart /\ UNCHANGED otherThanSup)
    /\ WF_vars(ConnectFails("timeout") /\ UNCHANGED otherThanSup)
    /\ WF_vars(AnnounceFails /\ UNCHANGED otherThanSup)
    /\ SF_vars(ConnectOk /\ UNCHANGED otherThanSup)

\* the supervisor under a fair loop and with a reachable agentcore
SpecSupervisorLive == Init /\ [][SupNext]_vars /\ SupFairness

SendCallInit == ProbeInit /\ ProtocolFresh /\ TimeIdle /\ SendInit /\ SupInit /\ CryptIdle /\ GcIdle /\ ReloadIdle

\* one call of send from its entry to its return
SpecSend == SendCallInit /\ [][SendNext]_vars

FirstRunInit == ProbeInit /\ ProtocolFresh /\ TimeInit /\ SendIdle /\ SupInit /\ CryptIdle /\ GcIdle /\ ReloadIdle

\* a runner from its creation to its first tick, with the clock
SpecFirstRun == FirstRunInit /\ [][TimeNext]_vars

\* The loop runs until the cancelled _start ends it (Probe.start,
\* probe.py:145-149), which is long before a runner made after the signal
\* has slept its first minute: the messages pushed after the signal are
\* left out, the steps of the cancelled tasks are not.
Next ==
    \/ \E msg \in SetMsgs :
          ~stopped /\ OnSetAssets(msg) /\ UNCHANGED <<stopped, otherThanProbe>>
    \/ \E a \in AssetIds : \E msg \in UpsertMsgs(a) :
          ~stopped /\ OnUpsertAsset(a, msg) /\ UNCHANGED <<stopped, otherThanProbe>>
    \/ \E ids \in UnsetMsgs :
          ~stopped /\ OnUnsetAssets(ids) /\ UNCHANGED <<stopped, otherThanProbe>>
    \/ \E i \in DOMAIN tasks :
          RunnerStart(i) /\ UNCHANGED <<stopped, otherThanProbe>>
    \/ \E i \in DOMAIN tasks :
          RunnerWake(i) /\ UNCHANGED <<stopped, otherThanProbe>>
    \/ Return /\ UNCHANGED <<stopped, otherThanProbe>>

Spec == Init /\ [][Next]_vars

\* the probe with the signal handler
NextShutdown ==
    \/ Next
    \/ Stop /\ UNCHANGED otherThanProbe

SpecShutdown == Init /\ [][NextShutdown]_vars

ProtocolWrapInit ==
    ProbeInit /\ (ProtocolFresh \/ ProtocolAged) /\ TimeIdle /\ SendIdle /\ SupInit /\ CryptIdle /\ GcIdle /\ ReloadIdle

\* the agentcore writes no further frame when this many are on their way
MaxStream == 2

\* the agentcore writes a frame that is no response
Push(d) ==
    /\ conn = "open"
    /\ Len(stream) < 2 * MaxStream
    /\ stream' = stream \o PushFrame(d)
    /\ phist' = [op |-> "push", decode |-> d]
    /\ UNCHANGED <<pid, requests, transport, buffered_data, package, futs, timers, asked, conn>>

ProtocolNext ==
    \/ connection_made /\ UNCHANGED otherThanProtocol
    \/ connection_lost /\ UNCHANGED otherThanProtocol
    \/ \E timeout \in Timeouts : request(timeout) /\ UNCHANGED otherThanProtocol
    \/ \E r \in DOMAIN timers : timer(r) /\ UNCHANGED otherThanProtocol
    \/ \E r \in asked : Answer(r) /\ UNCHANGED otherThanProtocol
    \/ \E n \in 1..Len(stream) : data_received(n) /\ UNCHANGED otherThanProtocol

\* requests without a timeout, their responses and the other frames
ReceiveNext ==
    \/ connection_made /\ UNCHANGED otherThanProtocol
    \/ request(0) /\ UNCHANGED otherThanProtocol
    \/ \E r \in asked :
          Len(stream) < 2 * MaxStream /\ Answer(r) /\ UNCHANGED otherThanProtocol
    \/ \E d \in Decodes : Push(d) /\ UNCHANGED otherThanProtocol
    \/ \E n \in 1..Len(stream) : data_received(n) /\ UNCHANGED otherThanProtocol

\* a protocol receiving responses and frames that are none, whose bodies
\* decode or not
SpecReceive == Init /\ [][ReceiveNext]_vars

\* a protocol from its construction
SpecProtocol == Init /\ [][ProtocolNext]_vars

\* a protocol from its construction, or from the calls before the pid wraps
SpecProtocolWrap == ProtocolWrapInit /\ [][ProtocolNext]_vars

(***************************************************************************)
(* The claims.                                                             *)
(***************************************************************************)
HandlerOps == {"set_assets", "upsert_asset", "unset_assets"}

\* the entries of a message whose check key is a registered check function
RegisteredIdx(msg) == { i \in 1..Len(msg) : msg[i][2][2] \in checks_funs }

\* map m holds, for the paths in P, exactly the registered entries of msg
\* (the last one, when a path occurs more than once)
HoldsRegisteredEntries(m, P, msg) ==
    /\ P = { msg[i][1] : i \in RegisteredIdx(msg) }
    /\ \A p \in P :
          \E i \in RegisteredIdx(msg) :
             /\ msg[i][1] = p
             /\ m[p] = <<msg[i][2], msg[i][3]>>
             /\ \A j \in RegisteredIdx(msg) : msg[j][1] = p => j <= i

\* in this step the assignment of path p, and its task, stay as they are
Untouched(p) ==
    /\ (p \in DOMAIN checks_config') = (p \in DOMAIN checks_config)
    /\ p \in DOMAIN checks_config => checks_config'[p] = checks_config[p]
    /\ (p \in DOMAIN checks') = (p \in DOMAIN checks)
    /\ p \in DOMAIN checks =>
          /\ checks'[p] = checks[p]
          /\ checks[p] \in DOMAIN tasks'
          /\ tasks'[checks[p]] = tasks[checks[p]]

\* in this step the task registered for p is taken out of checks and
\* cancelled
PoppedAndCancelled(p) ==
    /\ p \notin DOMAIN checks'
    /\ Alive(tasks[checks[p]]) =>
          /\ checks[p] \in DOMAIN tasks'
          /\ tasks'[checks[p]] = [tasks[checks[p]] EXCEPT !.cancel = TRUE]

\* in this step a task is created and registered for p
Spawned(p) ==
    /\ p \in DOMAIN checks'
    /\ checks'[p] \notin DOMAIN tasks
    /\ tasks'[checks'[p]] = NewTask

\* C1: every path with an entry in the running-task map has an entry in the
\* config map, and every runner that is alive and has no cancellation under
\* way is the registered runner of a path that has a config.
C1_RunningHaveConfig ==
    /\ DOMAIN checks \subseteq DOMAIN checks_config
    /\ \A p \in DOMAIN checks : checks[p] \in DOMAIN tasks
    /\ \A i \in DOMAIN tasks :
          Alive(tasks[i]) /\ ~tasks[i].cancel =>
             /\ PathOf(i) \in DOMAIN checks_config
             /\ checks[PathOf(i)] = i

\* a cancelled runner whose path has left the config waits for its
\* cancellation while another runner sleeps
C1_Witness ==
    /\ \E i \in DOMAIN tasks :
          tasks[i].cancel /\ PathOf(i) \notin DOMAIN checks_config
    /\ \E p \in DOMAIN checks : tasks[checks[p]].pc = "sleep"

C3_SetAssetsApplied ==
    [][hist'.op = "set_assets" =>
        /\ HoldsRegisteredEntries(checks_config', DOMAIN checks_config', hist'.msg)
        /\ \A p \in DOMAIN checks \ DOMAIN checks_config' : PoppedAndCancelled(p)
        /\ \A p \in DOMAIN checks_config' \ DOMAIN checks : Spawned(p)
        /\ \A p \in DOMAIN checks \cap DOMAIN checks_config' :
              /\ p \in DOMAIN checks' /\ checks'[p] = checks[p]
              /\ tasks'[checks[p]] = tasks[checks[p]]
    ]_probeVars

\* a set_assets with an entry of an unknown check key has left one runner
\* sleeping, has one cancelled runner not gone yet, and a runner just made
C3_Witness ==
    /\ hist.op = "set_assets"
    /\ \E k \in 1..Len(hist.msg) : hist.msg[k][2] = NamesNope
    /\ \E i \in DOMAIN tasks : tasks[i].cancel
    /\ \E p \in DOMAIN checks : tasks[checks[p]].pc = "sleep"

\* C4: after unset_assets no path of the listed assets is in the config map
\* or in the running-task map, their runners are cancelled, and the
\* assignments and runners of the other assets stay as they are.
C4_UnsetOnlyListed ==
    [][hist'.op = "unset_assets" =>
        LET gone == { p \in Paths : p[1] \in hist'.ids }
        IN  /\ \A p \in gone :
                  /\ p \notin DOMAIN checks_config'
                  /\ p \in DOMAIN checks => PoppedAndCancelled(p)
                  /\ p \notin DOMAIN checks'
            /\ \A p \in Paths \ gone : Untouched(p)
            /\ \A i \in DOMAIN tasks : PathOf(i) \notin gone =>
                  i \in DOMAIN tasks' /\ tasks'[i] = tasks[i]
    ]_probeVars

\* an unset of asset 1 has cancelled a runner that is not gone yet, and
\* asset 2 keeps its sleeping runner
C4_Witness ==
    /\ hist.op = "unset_assets" /\ hist.ids = {1}
    /\ \E i \in DOMAIN tasks : PathOf(i)[1] = 1 /\ tasks[i].cancel
    /\ <<2, 1>> \in DOMAIN checks /\ tasks[checks[<<2, 1>>]].pc = "sleep"
    /\ <<2, 1>> \in DOMAIN checks_config

\* C9: every tick invokes the user check, and the end of the invocation is
\* classified: a dict is sent as the result; IgnoreResult sends nothing and
\* the loop goes on; IgnoreCheck sends nothing and ends the loop; CheckError
\* is sent as the error; IncompleteResult is sent with its partial result;
\* a timeout, another exception and a result that is no dict are sent as an
\* error; after everything sent the loop goes on.
C9_TickClassified ==
    /\ hist.op = "tick" =>
          hist.task \in DOMAIN tasks /\ tasks[hist.task].pc = "check"
    /\ hist.op = "check_done" /\ ~hist.cancelled =>
          LET o == hist.outcome
              c == hist.send
          IN  /\ c.sent = (o \notin {"IgnoreResultException", "IgnoreCheckException"})
              /\ c.loop = (o # "IgnoreCheckException")
              /\ c.sent => c.result = CASE o = "dict" -> "res"
                                        [] o = "IncompleteResultException" -> "e.result"
                                        [] OTHER -> "None"
              /\ c.sent => c.error = IF o = "dict" THEN "None" ELSE "e.to_dict()"

\* C10: a reconciliation that keeps a path whose runner has ended by itself
\* (it left its loop, as IgnoreCheck makes it do, or it raised) and gives
\* the path another (names, config) starts a new runner for the path.
C10_ReenabledOnChange ==
    [][hist'.op \in HandlerOps =>
        \A p \in DOMAIN checks \cap DOMAIN checks_config' :
            (/\ tasks[checks[p]].pc \in {"done", "error"}
             /\ checks_config'[p] # checks_config[p])
            => Spawned(p)
    ]_probeVars

\* the futures no set_result and no set_exception has completed
Pending == { r \in DOMAIN futs : futs[r].state = "pending" }

\* C5: a response takes out the entry of its pid, cancels the timer of that
\* entry and resolves the future of the request it answers with its body;
\* no future gets the body of another request, and a request whose response
\* is read before its timer has fired is resolved, not failed.
C5_ResponsesMatch ==
    /\ \A r \in DOMAIN futs :
          futs[r].state = "result" => futs[r].value = Body(r)
    /\ phist.op = "data_received" =>
          \A k \in DOMAIN phist.got :
             LET r == phist.got[k].data
             IN  timers[r] # "done" =>
                    /\ phist.got[k].future = r
                    /\ futs[r].state = "result"
                    /\ futs[r].pid \notin DOMAIN requests
                    /\ timers[r] \in {None, "cancelled"}

\* C6: a future is completed at most once; only its own timer, having
\* fired, fails it with Timeout; a timer that has fired has taken out the
\* entry of its request and failed its future; and a response read after
\* the timer of its request has fired finds no entry and is dropped.
C6_CompletedOnce ==
    /\ \A r \in DOMAIN futs :
          /\ futs[r].sets <= 1
          /\ futs[r].state = "TimeoutError" => timers[r] = "done"
          /\ timers[r] = "done" =>
                /\ futs[r].state = "TimeoutError"
                /\ \A p \in DOMAIN requests : requests[p].future # r
    /\ phist.op = "data_received" =>
          \A k \in DOMAIN phist.got :
             timers[phist.got[k].data] = "done" => phist.got[k].future = NoCall

\* C7: after connection_lost the futures that were pending have failed with
\* Disconnected, the table of pending requests is empty, the buffer and the
\* partial package are cleared and there is no transport.
C7_LostFailsPending ==
    phist.op = "connection_lost" =>
        /\ \A r \in phist.pending : futs[r].state = "Disconnected"
        /\ Pending = {}
        /\ requests = EmptyMap
        /\ buffered_data = <<>>
        /\ package = NoPackage
        /\ transport = None

\* C8: request() gives the pid after the last one modulo 2^16; two pending
\* requests never hold the same pid, and the entry of a pending request is
\* in the table, with its own future and timer.
C8_PidsDistinct ==
    /\ phist.op = "request" =>
          /\ pid = (phist.pid_before + 1) % PidMod
          /\ futs[phist.call].pid = pid
    /\ \A r1, r2 \in Pending : r1 # r2 => futs[r1].pid # futs[r2].pid
    /\ \A r \in Pending :
          /\ futs[r].pid \in DOMAIN requests
          /\ requests[futs[r].pid].future = r
          /\ requests[futs[r].pid].task = IF timers[r] = None THEN NoCall ELSE r

RunnerOps == {"start", "tick", "sleep_cancelled", "check_done"}

C12_FirstRunWindow ==
    /\ invoked_at # Never =>
          /\ invoked_at >= FirstDelay
          /\ invoked_at <= FirstDelay + interval
    /\ loop_pc \notin {"new", "sleep"} => invoked_at # Never
    /\ clock > FirstDelay + interval => invoked_at # Never

\* C13: a call of send has at most one call of itself under it, the frame
\* of that call fits, and when send has returned it has written nothing
\* without a transport and else one frame: its own when that fits, and
\* otherwise the one with no result and the error 'data package too large'.
C13_SendAtMostOneFrame ==
    /\ Len(send_stack) <= 2
    /\ Len(send_stack) = 2 => ~TooLarge(Running.len)
    /\ Len(written) <= 1
    /\ send_pc = "done" /\ send_stack # <<>> =>
          IF ~send_transport THEN written = <<>>
          ELSE /\ Len(written) = 1
               /\ IF send_stack[1].len <= MAX_PACKAGE_SIZE
                  THEN written[1] = send_stack[1]
                  ELSE /\ written[1].args.result = "None"
                       /\ written[1].args.error = "data package too large"

\* with the smallest setting a frame one byte too long has been replaced
\* by the fallback frame, which was written
C13_Witness ==
    /\ MAX_PACKAGE_SIZE = MinPackageKB * KB
    /\ send_pc = "done"
    /\ Len(send_stack) = 2
    /\ send_stack[1].len = MAX_PACKAGE_SIZE + 1
    /\ written = << send_stack[2] >>

\* the values a doubling from initial_step up to max_step passes through
Steps == {2 ^ k : k \in 1..7}

\* C14: an evaluation of the supervisor that finds the probe disconnected
\* and not connecting spawns an attempt and sets step to min(2*step, 128);
\* one that finds it connected sets step to 2; step is one of 2, 4, ...,
\* 128; and while no connection is made the time between two successive
\* attempts is the double of the time between the two before, up to 128
\* seconds, whether the attempts are refused or time out.
C14_BackoffDoubles ==
    /\ step \in Steps
    /\ shist.op = "evaluate" =>
          /\ ~shist.connected /\ ~shist.connecting =>
                /\ shist.spawned
                /\ step = Min(2 * shist.step_before, max_step)
          /\ shist.connected => step = initial_step
          /\ shist.spawned /\ shist.prev_gap # NoGap =>
                shist.gap = Min(2 * shist.prev_gap, max_step)

\* C15: when a connect attempt has failed, at the connect (refused, or not
\* made within 10 seconds) or at the ANNOUNCE request (failed, or not
\* answered within 10 seconds), the probe is neither connected nor
\* connecting.
C15_FailedAttemptDisconnected ==
    shist.op = "attempt_failed" => ~is_connected /\ ~is_connecting

\* the plain strings under the sensitive keys of o are those of d, at the
\* same places, and d has the mappings and sequences of o
RECURSIVE LeavesKept(_, _)
LeavesKept(o, d) ==
    IF o.t = "dict"
    THEN /\ d.t = "dict"
         /\ DOMAIN d.v = DOMAIN o.v
         /\ \A k \in DOMAIN o.v :
               IF k \in Sensitive /\ o.v[k].t = "str"
               THEN d.v[k] = o.v[k]
               ELSE LeavesKept(o.v[k], d.v[k])
    ELSE IF o.t = "list"
    THEN /\ d.t = "list"
         /\ DOMAIN d.v = DOMAIN o.v
         /\ \A i \in DOMAIN o.v : LeavesKept(o.v[i], d.v[i])
    ELSE TRUE

\* no value under a sensitive key of d, at any depth, is an encrypted one
RECURSIVE NoEncrypted(_)
NoEncrypted(d) ==
    IF d.t = "dict"
    THEN \A k \in DOMAIN d.v :
            /\ k \in Sensitive /\ d.v[k].t = "dict" => "encrypted" \notin DOMAIN d.v[k].v
            /\ NoEncrypted(d.v[k])
    ELSE IF d.t = "list"
    THEN \A i \in DOMAIN d.v : NoEncrypted(d.v[i])
    ELSE TRUE

\* C16: after encrypt and then decrypt every password or secret that was a
\* plain string in the loaded document is that string again, at any depth
\* of mappings and sequences, and no encrypted value is left under a
\* password or secret key.
C16_EncryptDecryptIdentity ==
    crypt_pc = "decrypted" => LeavesKept(orig, doc) /\ NoEncrypted(doc)

\* the entries of the assets of the probe's block that are for the asset,
\* by their place in the list
EntriesFor(conf, asset_id) ==
    LET probe == Get(conf, probe_name)
        assets == IF probe.t = "dict" THEN Get(probe, "assets") ELSE NoneVal
    IN  IF assets.t # "list" THEN {}
        ELSE {i \in DOMAIN assets.v :
                 /\ assets.v[i].t = "dict"
                 /\ \/ Get(assets.v[i], "id") = Num(asset_id)
                    \/ /\ Get(assets.v[i], "id").t = "list"
                       /\ \E j \in DOMAIN Get(assets.v[i], "id").v :
                             Get(assets.v[i], "id").v[j] = Num(asset_id)}

\* the options the resolution is to give
Resolved(conf, asset_id) ==
    LET probe == Get(conf, probe_name)
        for == EntriesFor(conf, asset_id)
        first == CHOOSE i \in for : \A j \in for : i <= j
    IN  IF for # {}
        THEN LET c == Get(Get(probe, "assets").v[first], "config")
             IN  IF c.t = "dict" THEN c ELSE Dict(<<>>)
        ELSE IF probe.t = "dict" /\ Get(probe, "config").t = "dict"
        THEN Get(probe, "config")
        ELSE Dict(<<>>)

\* C17: the options resolved for an asset are the config map of the first
\* entry of assets whose id is the asset's or lists it, else the config
\* map of the probe, else the empty map; the result is a map in every
\* case, also for the call the runner makes with the check's _use value.
C17_ConfigResolution ==
    gc_pc = "returned" =>
        /\ gc_result.t = "dict"
        /\ gc_result = Resolved(gc_conf, gc_asset_id)

\* what a file that loads is to give in memory: its document with the
\* plain strings, and the empty document for an empty file
PlainDocument(content) == IF content.t = "dict" THEN content ELSE Dict(<<>>)

\* C18: a tick that finds the mtime of the file equal to the cached one
\* leaves the document in memory as it is; one that finds a changed file
\* that loads puts its decrypted document and its mtime in place of the
\* old ones; one that finds a changed file that does not load keeps the
\* document and the cached mtime, and goes on with the options resolved
\* from the document kept; so a valid file written later is picked up.
C18_HotReload ==
    rhist.op = "tick" =>
        /\ rhist.same =>
              /\ local_config = rhist.doc_before
              /\ local_config_mtime = rhist.mtime_before
        /\ ~rhist.same /\ Loads(rhist.content) =>
              /\ local_config = PlainDocument(rhist.content)
              /\ local_config_mtime = file_mtime
        /\ ~rhist.same /\ ~Loads(rhist.content) =>
              /\ local_config = rhist.doc_before
              /\ local_config_mtime = rhist.mtime_before
              /\ rhist.result = Resolved(rhist.doc_before, rhist.asset_id)

\* C19: a runner whose path a reconciliation has popped is cancelled, and
\* the reconciliation leaves it where it is suspended; its next step is
\* its last one and sends nothing: it ends at its sleep, or as cancelled
\* from outside at the await of the user check, also when its path has
\* been given to a new runner in between.
C19_CancelledRunnerSilent ==
    [][/\ \A i \in DOMAIN tasks' :
             Alive(tasks'[i]) /\ (\A p \in DOMAIN checks' : checks'[p] # i) =>
                tasks'[i].cancel
       /\ hist'.op \in HandlerOps =>
             \A i \in DOMAIN tasks : Alive(tasks[i]) =>
                i \in DOMAIN tasks' /\ tasks'[i].pc = tasks[i].pc
       /\ hist'.op \in RunnerOps /\ tasks[hist'.task].cancel =>
             /\ hist'.op # "tick"
             /\ hist'.op = "check_done" => ~hist'.send.sent /\ ~hist'.send.loop
             /\ hist'.task \in DOMAIN tasks' => Finished(tasks'[hist'.task])
    ]_probeVars

\* a runner cancelled at its sleep has ended there while its path was
\* already given to a new runner, which is still to take its first step
C19_Witness ==
    /\ hist.op = "sleep_cancelled"
    /\ PathOf(hist.task) \in DOMAIN checks
    /\ checks[PathOf(hist.task)] # hist.task
    /\ tasks[checks[PathOf(hist.task)]].pc = "new"
    /\ hist.task \notin DOMAIN tasks

\* the frames that are whole in buffer b, by their place
WholeFrames(b) == 1..(Len(b) \div 2)
DecodeOf(b, k) == b[2 * k].decode

\* the whole frames of b up to the first whose body raises another
\* exception than KeyError
Parsed(b) ==
    {k \in WholeFrames(b) :
        \A j \in WholeFrames(b) : j < k => DecodeOf(b, j) # "Exception"}

RECURSIVE SeqOfSet(_)
SeqOfSet(S) ==
    IF S = {} THEN <<>>
    ELSE LET k == MinOf(S)
         IN  <<k>> \o SeqOfSet(S \ {k})

\* C20: a call of data_received dispatches, in their order, the frames
\* that are whole in the buffer and decode, up to the first whose body
\* raises another exception than KeyError: a frame that raises KeyError is
\* passed over alone; the other exception empties the buffer; the loop
\* ends; and a frame whose bytes are not all there is not dispatched but
\* left in the buffer.
C20_DecodeErrors ==
    phist.op = "data_received" =>
        LET b == phist.buf
            good == SeqOfSet({k \in Parsed(b) : DecodeOf(b, k) = "ok"})
        IN  /\ Len(phist.got) = Len(good)
            /\ \A i \in DOMAIN good :
                  /\ phist.got[i].pid = b[2 * good[i] - 1].pid
                  /\ phist.got[i].data = b[2 * good[i]].data
            /\ buffered_data =
                  IF \E k \in WholeFrames(b) : DecodeOf(b, k) = "Exception"
                  THEN <<>>
                  ELSE SubSeq(b, 2 * (Len(b) \div 2) + 1, Len(b))

\* one read gave a frame of an unknown type, then a response, then the
\* head of a further frame: the response was dispatched and the head is
\* in the buffer
C20_Witness ==
    /\ phist.op = "data_received"
    /\ Len(phist.buf) = 5
    /\ DecodeOf(phist.buf, 1) = "KeyError"
    /\ DecodeOf(phist.buf, 2) = "ok"
    /\ Len(phist.got) = 1
    /\ phist.got[1].future # NoCall
    /\ Len(buffered_data) = 1

\* C21: at most one _connect task exists at any time: the supervisor
\* spawns none while one is at its connect or at its ANNOUNCE request,
\* whatever the order of evaluations, ends of attempts and losses of the
\* connection.
C21_OneAttempt ==
    /\ in_flight <= 1
    /\ in_flight = 0 <=> attempt = "none"

\* the connection was lost while ANNOUNCE was awaited, and an evaluation
\* of the supervisor has found the probe disconnected and spawned nothing
C21_Witness ==
    /\ shist.op = "evaluate"
    /\ ~shist.connected /\ shist.connecting /\ ~shist.spawned
    /\ attempt = "announce"
    /\ in_flight = 1

\* C22: with a fair loop and an agentcore that is reachable, a probe that
\* is disconnected and has no attempt under way spawns one, and a probe
\* that is disconnected, never connected yet or after a loss, gets
\* connected with its ANNOUNCE request sent.
C22_EventuallyConnected ==
    /\ (~is_connected /\ attempt = "none") ~> (attempt = "new")
    /\ (~is_connected) ~> (is_connected /\ attempt = "announce")

\* after attempts that failed until the sleep of the supervisor was at
\* its cap, an attempt has connected and awaits the answer to ANNOUNCE
C22_Witness ==
    /\ shist.op = "connect_ok"
    /\ step = max_step
    /\ is_connected
    /\ attempt = "announce"
====
